---- MODULE Spec2Model ----
(***************************************************************************)
(* Declaration / declarator parser of core/parser/declaration.py.          *)
(*                                                                         *)
(* The token buffer p.tokens is a sequence of token spellings; positions   *)
(* are 0-based as in the code.  The typedef registry p.symbols maps an     *)
(* identifier spelling to "none" (never declared), "var" (declared with    *)
(* is_typedef False) or "typedef".  Every parsing function is an operator  *)
(* that takes and returns the mutable world w = [sym, errs, calls, aband]: *)
(* sym is p.symbols, errs is error_collector, calls and aband are history  *)
(* logs of the recursive builder calls and of the abandoned speculative    *)
(* function-declarator attempts.  A result has st = "ok", st = "error" (a  *)
(* CompilerError / ParserError was raised) or st = "crash" (a Python       *)
(* NameError / IndexError, which log_error does not catch).                *)
(***************************************************************************)
EXTENDS Integers, Sequences, FiniteSets, TLC

VARIABLES tokens, cursor, symbols, errors, result

vars == <<tokens, cursor, symbols, errors, result>>

\* ---------------------------------------------------------------- bounds
MaxLen == 2

\* ---------------------------------------------------------------- tokens
Names == {"f", "x", "y", "myint"}

Alphabet == {"int", "x", "*", "(", ")", "[", "]"}

RECURSIVE SeqsUpTo(_)
SeqsUpTo(n) ==
  IF n = 0 THEN {<<>>}
  ELSE LET S == SeqsUpTo(n - 1)
       IN S \cup {Append(s, a) : s \in {t \in S : Len(t) = n - 1}, a \in Alphabet}

ExPtrFunc   == <<"int", "(", "*", "f", ")", "(", "int", ",", "char", ")", ";">>
ExFuncFunc  == <<"int", "f", "(", "int", "x", ")", "(", "int", "y", ")", ";">>
ExTypedef   == <<"typedef", "int", "myint", ";", "myint", "x", ";">>
ExLeak      == <<"int", "(", "int", "x", "int", ")", ";">>
ExArray     == <<"int", "x", "[", "num", "]", "[", "]", ";">>
ExInit      == <<"int", "x", "=", "num", ",", "y", ";">>
ExSpecQual  == <<"int", "static", "char", "x", ";">>
ExGroupArr  == <<"int", "(", "(", "x", ")", "[", "num", "]", ")", "(", ")", ";">>
ExBadSq     == <<"[", "x", "int", "(", "x", "]", ")", ";">>
ExTypes     == <<"x", ";", "x", "int", "x", ";">>

Examples == {ExPtrFunc, ExFuncFunc, ExTypedef, ExLeak, ExArray,
             ExInit, ExSpecQual, ExGroupArr, ExBadSq, ExTypes}

Buffers == SeqsUpTo(MaxLen) \cup Examples

NTok == Len(tokens)

PyIndexOK(i) == i >= 0 - NTok /\ i < NTok

PyIdx(i) == IF i < 0 THEN i + NTok ELSE i

Tok(i) == IF PyIndexOK(i) THEN tokens[PyIdx(i) + 1] ELSE "IndexError"

Kind(i) == IF Tok(i) \in Names THEN "identifier" ELSE Tok(i)

token_is(index, kind) == index >= 0 /\ index < NTok /\ Kind(index) = kind

token_in(index, kinds) == index >= 0 /\ index < NTok /\ Kind(index) \in kinds

\* ---------------------------------------------------------------- registry
NoSymbols == [n \in Names |-> "none"]

is_typedef(sym, tok) == tok \in Names /\ sym[tok] = "typedef"

add_symbol(sym, tok, is_td) ==
  [sym EXCEPT ![tok] = IF is_td THEN "typedef" ELSE "var"]

\* ---------------------------------------------------------------- results
NoNode == [kind |-> "NoNode"]

\* the Python value None where a node or an expression is expected
None == [kind |-> "None"]

Ok(node, idx, w) == [st |-> "ok", msg |-> "", at |-> 0 - 1, node |-> node, idx |-> idx, w |-> w]

raise_error(err, index, w) ==
  [st |-> "error", msg |-> err, at |-> index, node |-> NoNode, idx |-> index, w |-> w]

Crash(err, index, w) ==
  [st |-> "crash", msg |-> err, at |-> index, node |-> NoNode, idx |-> index, w |-> w]

Identifier(name) == [kind |-> "Identifier", identifier |-> name, r |-> <<>>]

Pointer(child, const) == [kind |-> "Pointer", child |-> child, const |-> const, r |-> <<>>]

Function(params, child) == [kind |-> "Function", args |-> params, child |-> child, r |-> <<>>]

Array(n, child) == [kind |-> "Array", n |-> n, child |-> child, r |-> <<>>]

Root(specs, decls, inits) == [kind |-> "Root", specs |-> specs, decls |-> decls, inits |-> inits]

\* ---------------------------------------------------------------- bracket matcher
RECURSIVE ScanForward(_, _, _, _)
ScanForward(i, depth, open, close) ==
  IF i >= NTok THEN 0 - 1
  ELSE LET d == IF Kind(i) = open THEN depth + 1
                ELSE IF Kind(i) = close THEN depth - 1
                ELSE depth
       IN IF d = 0 THEN i ELSE ScanForward(i + 1, d, open, close)

\* -1 stands for the raise_error of the for/else branch
_find_pair_forward(index, open, close) == ScanForward(index, 0, open, close)

RECURSIVE ScanBackward(_, _, _, _)
ScanBackward(i, depth, open, close) ==
  IF i < 0 THEN 0 - 1
  ELSE LET d == IF Kind(i) = close THEN depth + 1
                ELSE IF Kind(i) = open THEN depth - 1
                ELSE depth
       IN IF d = 0 THEN i ELSE ScanBackward(i - 1, d, open, close)

_find_pair_backward(index, open, close) == ScanBackward(index, 0, open, close)

\* ---------------------------------------------------------------- end finder
\* _find_decl_end without the `[` case of lines 264-268
RECURSIVE _find_decl_end_no_sq(_)
_find_decl_end_no_sq(index) ==
  IF token_is(index, "*") \/ token_is(index, "identifier")
  THEN _find_decl_end_no_sq(index + 1)
  ELSE IF token_is(index, "(")
  THEN LET close == _find_pair_forward(index, "(", ")")
       IN IF close < 0
          THEN [st |-> "error", msg |-> "mismatched parentheses in declaration", idx |-> index]
          ELSE _find_decl_end_no_sq(close + 1)
  ELSE [st |-> "ok", msg |-> "", idx |-> index]

RECURSIVE _find_decl_end(_)
_find_decl_end(index) ==
  IF token_is(index, "*") \/ token_is(index, "identifier")
  THEN _find_decl_end(index + 1)
  ELSE IF token_is(index, "(")
  THEN LET close == _find_pair_forward(index, "(", ")")
       IN IF close < 0
          THEN [st |-> "error", msg |-> "mismatched parentheses in declaration", idx |-> index]
          ELSE _find_decl_end(close + 1)
  ELSE IF token_is(index, "[")
  THEN LET close == _find_pair_forward(index, "[", "]")
       IN IF close < 0
          THEN [st |-> "error", msg |-> "mismatched square brackets in declaration", idx |-> index]
          ELSE _find_decl_end(close + 1)
  ELSE [st |-> "ok", msg |-> "", idx |-> index]

\* ---------------------------------------------------------------- world
World(sym, errs) == [sym |-> sym, errs |-> errs, calls |-> {}, aband |-> {}]

LogCall(w, start, end, s, e) == [w EXCEPT !.calls = @ \cup {<<start, end, s, e>>}]

LogAbandon(w, before, after) == [w EXCEPT !.aband = @ \cup {<<before, after>>}]

\* ---------------------------------------------------------------- external parsers
\* the expression parser is an opaque collaborator: an expression is one
\* number or one identifier token
parse_expression(index, w) ==
  IF token_is(index, "num") \/ token_is(index, "identifier")
  THEN Ok([kind |-> "Expr", tok |-> Tok(index)], index + 1, w)
  ELSE raise_error("expected expression", index, w)

parse_assignment(index, w) == parse_expression(index, w)

match_token(index, kind, w) ==
  IF token_is(index, kind)
  THEN Ok(NoNode, index + 1, w)
  ELSE raise_error("expected token", index, w)

\* ---------------------------------------------------------------- specifiers
type_specs == {"int", "char"}

type_quals == {}

storage_specs == {}

\* SpecLoop without the `not type_spec_class` guard of line 113
RECURSIVE SpecLoopAnyClass(_, _, _, _, _)
SpecLoopAnyClass(index, cls, specs, spec_qual, w) ==
  IF token_is(index, "identifier") /\ is_typedef(w.sym, Tok(index))
  THEN SpecLoopAnyClass(index + 1, "TYPEDEF", Append(specs, Tok(index)), spec_qual, w)
  ELSE IF cls \in {"None", "SIMPLE"} /\ token_in(index, type_specs)
  THEN SpecLoopAnyClass(index + 1, "SIMPLE", Append(specs, Tok(index)), spec_qual, w)
  ELSE IF token_in(index, type_quals)
  THEN SpecLoopAnyClass(index + 1, cls, Append(specs, Tok(index)), spec_qual, w)
  ELSE IF token_in(index, storage_specs)
  THEN IF ~spec_qual
       THEN SpecLoopAnyClass(index + 1, cls, Append(specs, Tok(index)), spec_qual, w)
       ELSE SpecLoopAnyClass(index + 1, cls, specs, spec_qual,
                             [w EXCEPT !.errs = @ \cup {"storage specifier not permitted here"}])
  ELSE [specs |-> specs, idx |-> index, w |-> w]

RECURSIVE SpecLoop(_, _, _, _, _)
SpecLoop(index, cls, specs, spec_qual, w) ==
  IF cls = "None" /\ token_is(index, "identifier") /\ is_typedef(w.sym, Tok(index))
  THEN SpecLoop(index + 1, "TYPEDEF", Append(specs, Tok(index)), spec_qual, w)
  ELSE IF cls \in {"None", "SIMPLE"} /\ token_in(index, type_specs)
  THEN SpecLoop(index + 1, "SIMPLE", Append(specs, Tok(index)), spec_qual, w)
  ELSE IF token_in(index, type_quals)
  THEN SpecLoop(index + 1, cls, Append(specs, Tok(index)), spec_qual, w)
  ELSE IF token_in(index, storage_specs)
  THEN IF ~spec_qual
       THEN SpecLoop(index + 1, cls, Append(specs, Tok(index)), spec_qual, w)
       ELSE SpecLoop(index + 1, cls, specs, spec_qual,
                     [w EXCEPT !.errs = @ \cup {"storage specifier not permitted here"}])
  ELSE [specs |-> specs, idx |-> index, w |-> w]

parse_decl_specifiers(index, spec_qual, w) ==
  LET l == SpecLoop(index, "None", <<>>, spec_qual, w)
  IN IF l.specs # <<>>
     THEN Ok(l.specs, l.idx, l.w)
     ELSE raise_error("expected declaration specifier", l.idx, l.w)

parse_spec_qual_list(index, w) == parse_decl_specifiers(index, TRUE, w)

\* ---------------------------------------------------------------- sequencing
\* `x = call(...)` followed by the rest of the function: when the call raises,
\* the exception propagates to the caller and the rest K is not executed
Then(r, K(_)) == IF r.st # "ok" THEN r ELSE K(r)

\* ---------------------------------------------------------------- declarator builder
\* The functions of the builder call each other recursively; every call that
\* closes a cycle goes through Recurse, defined after them:
\*   Recurse("_parse_declarator", <<start, end, is_typedef, w>>)
\*   Recurse("parse_declarator", <<index, is_typedef, w>>)
RECURSIVE Recurse(_, _)

\* _find_const is called on line 291 but is neither defined nor imported in
\* the module: the call raises NameError
_find_const(index, w) == Crash("NameError: _find_const", index, w)

\* ArrayBranch without the `index != end - 1` check of lines 313-315
ArrayBranchNoSizeCheck(start, end, is_td, w) ==
  LET open_sq == _find_pair_backward(end - 1, "[", "]")
  IN IF open_sq < 0
     THEN raise_error("mismatched square brackets in declaration", end - 1, w)
     ELSE Then(IF open_sq = end - 2
               THEN Ok(None, end - 1, w)
               ELSE parse_expression(open_sq + 1, w),
               LAMBDA ne :
                 Then(Recurse("_parse_declarator",
                              <<start, open_sq, is_td,
                                LogCall(ne.w, start, end, start, open_sq)>>),
                      LAMBDA c : Ok(Array(ne.node, c.node), end, c.w)))

ArrayBranch(start, end, is_td, w) ==
  LET open_sq == _find_pair_backward(end - 1, "[", "]")
  IN IF open_sq < 0
     THEN raise_error("mismatched square brackets in declaration", end - 1, w)
     ELSE Then(IF open_sq = end - 2
               THEN Ok(None, end - 1, w)
               ELSE parse_expression(open_sq + 1, w),
               LAMBDA ne :
                 IF ne.idx # end - 1
                 THEN raise_error("unexpected token in array size", ne.idx, ne.w)
                 ELSE Then(Recurse("_parse_declarator",
                                   <<start, open_sq, is_td,
                                     LogCall(ne.w, start, end, start, open_sq)>>),
                           LAMBDA c : Ok(Array(ne.node, c.node), end, c.w)))

GroupBranch(start, end, is_td, w) ==
  Recurse("_parse_declarator",
          <<start + 1, end - 1, is_td, LogCall(w, start, end, start + 1, end - 1)>>)

PointerBranch(start, end, is_td, w) ==
  Then(_find_const(start + 1, w),
       LAMBDA k :
         Then(Recurse("_parse_declarator",
                      <<k.idx, end, is_td, LogCall(k.w, start, end, k.idx, end)>>),
              LAMBDA c : Ok(Pointer(c.node, k.node), end, c.w)))

\* st = "none" stands for the return value None
ReturnNone(w) == [st |-> "none", msg |-> "", at |-> 0 - 1, node |-> NoNode, idx |-> 0 - 1, w |-> w]

\* log_error: a CompilerError raised inside the block is swallowed and
\* control leaves the block; the registry is left as the block left it
log_error(body, before) ==
  IF body.st = "error"
  THEN ReturnNone(LogAbandon(body.w, before, body.w.sym))
  ELSE body

RECURSIVE ParamLoop(_, _, _)
ParamLoop(index, params, w) ==
  Then(parse_decl_specifiers(index, FALSE, w),
       LAMBDA s :
         Then(Recurse("parse_declarator", <<s.idx, FALSE, s.w>>),
              LAMBDA d :
                IF token_is(d.idx, ",")
                THEN ParamLoop(d.idx + 1,
                               Append(params, Root(s.node, <<d.node>>, <<None>>)), d.w)
                ELSE Ok(Append(params, Root(s.node, <<d.node>>, <<None>>)), d.idx, d.w)))

parse_parameter_list(index, w) ==
  IF token_is(index, ")")
  THEN Ok(<<>>, index, w)
  ELSE ParamLoop(index, <<>>, w)

\* FuncDeclBody comparing the parameter list's end with `end` instead of
\* `end - 1` (line 330)
FuncDeclBodyOffByOne(start, end, l_paren, is_td, w) ==
  Then(parse_parameter_list(l_paren + 1, w),
       LAMBDA pl :
         IF pl.idx = end
         THEN Then(Recurse("_parse_declarator",
                           <<start, l_paren, is_td,
                             LogCall(pl.w, start, end, start, l_paren)>>),
                   LAMBDA c : Ok(Function(pl.node, c.node), end, c.w))
         ELSE ReturnNone(LogAbandon(pl.w, w.sym, pl.w.sym)))

FuncDeclBody(start, end, l_paren, is_td, w) ==
  Then(parse_parameter_list(l_paren + 1, w),
       LAMBDA pl :
         IF pl.idx = end - 1
         THEN Then(Recurse("_parse_declarator",
                           <<start, l_paren, is_td,
                             LogCall(pl.w, start, end, start, l_paren)>>),
                   LAMBDA c : Ok(Function(pl.node, c.node), end, c.w))
         ELSE ReturnNone(LogAbandon(pl.w, w.sym, pl.w.sym)))

_try_parse_func_decl(start, end, is_td, w) ==
  IF ~token_is(end - 1, ")")
  THEN ReturnNone(w)
  ELSE LET l_paren == _find_pair_backward(end - 1, "(", ")")
       IN IF l_paren < 0
          THEN raise_error("mismatched parentheses in declaration", end - 1, w)
          ELSE log_error(FuncDeclBody(start, end, l_paren, is_td, w), w.sym)

\* the rest of _parse_declarator_raw after `func_decl = _try_parse_func_decl(...)`
AfterFuncDecl(start, end, is_td, fd) ==
  IF fd.st # "none"
  THEN fd
  ELSE IF Kind(start) = "("
  THEN LET close == _find_pair_forward(start, "(", ")")
       IN IF close < 0
          THEN raise_error("mismatched parentheses in declaration", start, fd.w)
          ELSE IF close = end - 1
          THEN GroupBranch(start, end, is_td, fd.w)
          ELSE IF Kind(end - 1) = "]"
          THEN ArrayBranch(start, end, is_td, fd.w)
          ELSE raise_error("faulty declaration syntax", start, fd.w)
  ELSE IF Kind(end - 1) = "]"
  THEN ArrayBranch(start, end, is_td, fd.w)
  ELSE raise_error("faulty declaration syntax", start, fd.w)

_parse_declarator_raw(start, end, is_td, w) ==
  IF start = end
  THEN Ok(Identifier("None"), end, w)
  ELSE IF start + 1 = end /\ Kind(start) = "identifier"
  THEN Ok(Identifier(Tok(start)), end,
          [w EXCEPT !.sym = add_symbol(w.sym, Tok(start), is_td)])
  ELSE IF Kind(start) = "*"
  THEN PointerBranch(start, end, is_td, w)
  ELSE AfterFuncDecl(start, end, is_td, _try_parse_func_decl(start, end, is_td, w))

_parse_declarator(start, end, is_td, w) ==
  Then(_parse_declarator_raw(start, end, is_td, w),
       LAMBDA d :
         IF ~PyIndexOK(start) \/ ~PyIndexOK(end - 1)
         THEN Crash("IndexError", start, d.w)
         ELSE [d EXCEPT !.node.r = <<PyIdx(start), PyIdx(end - 1)>>])

parse_declarator(index, is_td, w) ==
  LET e == _find_decl_end(index)
  IN IF e.st # "ok"
     THEN raise_error(e.msg, e.idx, w)
     ELSE Then(_parse_declarator(index, e.idx, is_td, w),
               LAMBDA d : [d EXCEPT !.idx = e.idx])

Recurse(f, a) ==
  IF f = "_parse_declarator"
  THEN _parse_declarator(a[1], a[2], a[3], a[4])
  ELSE parse_declarator(a[1], a[2], a[3])

\* ---------------------------------------------------------------- entry points
RECURSIVE Leaf(_)
Leaf(node) == IF node.kind = "Identifier" THEN node ELSE Leaf(node.child)

\* parse_abstract_declarator without the error_collector.add of lines 57-59
parse_abstract_declarator_silent(index, w) ==
  parse_declarator(index, FALSE, w)

parse_abstract_declarator(index, w) ==
  Then(parse_declarator(index, FALSE, w),
       LAMBDA d :
         IF Leaf(d.node).identifier # "None"
         THEN [d EXCEPT !.w.errs = @ \cup
                 {"expected abstract declarator, but identifier name was provided"}]
         ELSE d)

RECURSIVE DeclLoop(_, _, _, _, _, _)
DeclLoop(index, specs, decls, inits, parse_inits, w) ==
  LET is_td == FALSE
  IN Then(parse_declarator(index, is_td, w),
          LAMBDA d :
            Then(IF token_is(d.idx, "=") /\ parse_inits
                 THEN parse_assignment(d.idx + 1, d.w)
                 ELSE Ok(None, d.idx, d.w),
                 LAMBDA i :
                   IF token_is(i.idx, ",")
                   THEN DeclLoop(i.idx + 1, specs, Append(decls, d.node),
                                 Append(inits, i.node), parse_inits, i.w)
                   ELSE Then(match_token(i.idx, ";", i.w),
                             LAMBDA m : Ok(Root(specs, Append(decls, d.node),
                                                Append(inits, i.node)),
                                           m.idx, m.w))))

parse_decls_inits(index, parse_inits, w) ==
  Then(parse_decl_specifiers(index, FALSE, w),
       LAMBDA s :
         IF token_is(s.idx, ";")
         THEN Ok(Root(s.node, <<>>, <<>>), s.idx + 1, s.w)
         ELSE DeclLoop(s.idx, s.node, <<>>, <<>>, parse_inits, s.w))

parse_declaration(index, w) ==
  Then(parse_decls_inits(index, TRUE, w),
       LAMBDA n : Ok([kind |-> "Declaration", node |-> n.node, body |-> None],
                     n.idx, n.w))

\* ---------------------------------------------------------------- state machine
\* The caller of the parser holds a position `cursor` in the token buffer:
\* it calls an entry point at the cursor and continues at the position the
\* call returns; after a CompilerError it stays where it was (and may try
\* another entry point); tokens the declaration parser does not consume are
\* consumed by the collaborators (Skip).

\* the specifier list of a successful specifier parse, as a node of the result
SpecsResult(r) ==
  IF r.st = "ok" THEN [r EXCEPT !.node = [kind |-> "Specs", specs |-> r.node]] ELSE r

Record(op, pos, td, r) ==
  [op |-> op, pos |-> pos, td |-> td, st |-> r.st, msg |-> r.msg, at |-> r.at,
   idx |-> r.idx, node |-> r.node, calls |-> r.w.calls, aband |-> r.w.aband,
   logged |-> r.w.errs]

Init ==
  /\ tokens \in Buffers
  /\ cursor = 0
  /\ symbols = NoSymbols
  /\ errors = {}
  /\ result = [op |-> "init", pos |-> 0, td |-> FALSE, st |-> "ok", msg |-> "",
               at |-> 0 - 1, idx |-> 0, node |-> NoNode, calls |-> {}, aband |-> {},
               logged |-> {}]

Running == result.st # "crash"

Finish(op, td, r) ==
  /\ result' = Record(op, cursor, td, r)
  /\ cursor' = IF r.st = "ok" THEN r.idx ELSE cursor
  /\ symbols' = r.w.sym
  /\ errors' = errors \cup r.w.errs
  /\ UNCHANGED tokens

Skip ==
  /\ Running
  /\ cursor < NTok
  /\ cursor' = cursor + 1
  /\ UNCHANGED <<tokens, symbols, errors, result>>

DoFindDeclEnd ==
  /\ Running
  /\ LET e == _find_decl_end(cursor)
     IN /\ result' = Record("find_decl_end", cursor, FALSE,
                            [st |-> e.st, msg |-> e.msg, at |-> e.idx, idx |-> e.idx,
                             node |-> NoNode, w |-> World(symbols, {})])
        /\ UNCHANGED <<tokens, cursor, symbols, errors>>

DoParseDeclSpecifiers ==
  /\ Running
  /\ Finish("decl_specifiers", FALSE,
            SpecsResult(parse_decl_specifiers(cursor, FALSE, World(symbols, {}))))

DoParseSpecQualList ==
  /\ Running
  /\ Finish("spec_qual_list", FALSE,
            SpecsResult(parse_spec_qual_list(cursor, World(symbols, {}))))

DoParseDeclarator ==
  \E td \in BOOLEAN :
    /\ Running
    /\ Finish("declarator", td, parse_declarator(cursor, td, World(symbols, {})))

DoParseAbstractDeclarator ==
  /\ Running
  /\ Finish("abstract_declarator", FALSE,
            parse_abstract_declarator(cursor, World(symbols, {})))

DoParseDeclaration ==
  /\ Running
  /\ Finish("declaration", FALSE, parse_declaration(cursor, World(symbols, {})))

Next ==
  \/ Skip
  \/ DoFindDeclEnd
  \/ DoParseDeclSpecifiers
  \/ DoParseSpecQualList
  \/ DoParseDeclarator
  \/ DoParseAbstractDeclarator
  \/ DoParseDeclaration

Spec == Init /\ [][Next]_vars

\* ---------------------------------------------------------------- properties
StorageKeywords == {"typedef", "static"}

Continuing == {"*", "identifier", "(", "["}

Count(kind, a, b) == Cardinality({i \in a .. b : Kind(i) = kind})

Unmatched(at, open, close) ==
  \A j \in at .. NTok - 1 : Count(open, at, j) > Count(close, at, j)

IsBuild == result.op \in {"declarator", "abstract_declarator"}

AbstractMsg == "expected abstract declarator, but identifier name was provided"

StorageMsg == "storage specifier not permitted here"

AbstractParam(root, spec) ==
  /\ root.specs = <<spec>>
  /\ Len(root.decls) = 1
  /\ root.decls[1].kind = "Identifier"
  /\ root.decls[1].identifier = "None"

NamedParam(root, spec, name) ==
  /\ root.specs = <<spec>>
  /\ Len(root.decls) = 1
  /\ root.decls[1].kind = "Identifier"
  /\ root.decls[1].identifier = name

\* C1: building the declarator of `int (*f)(int, char);` yields
\* Pointer{ Function{ params: [int, char] (abstract), Identifier f } }
C1_PointerToFunction ==
  (tokens = ExPtrFunc /\ result.op = "declarator" /\ result.pos = 1) =>
    /\ result.st = "ok"
    /\ result.node.kind = "Pointer"
    /\ result.node.child.kind = "Function"
    /\ Len(result.node.child.args) = 2
    /\ AbstractParam(result.node.child.args[1], "int")
    /\ AbstractParam(result.node.child.args[2], "char")
    /\ result.node.child.child.kind = "Identifier"
    /\ result.node.child.child.identifier = "f"

\* C2 (original): the builder run on `f ( int x ) ( int y )` fails with
\* "faulty declaration syntax" and never returns a declarator tree
C2_FuncFuncFails ==
  (tokens = ExFuncFunc /\ result.op = "declarator" /\ result.pos = 1) =>
    /\ result.st = "error"
    /\ result.msg = "faulty declaration syntax"

\* C2 (amended): the builder run on `f ( int x ) ( int y )` returns
\* Function{ [int y], Function{ [int x], Identifier f } } ending at the `;`
C2_FuncFuncParses ==
  (tokens = ExFuncFunc /\ result.op = "declarator" /\ result.pos = 1) =>
    /\ result.st = "ok"
    /\ result.idx = 10
    /\ result.node.kind = "Function"
    /\ Len(result.node.args) = 1
    /\ NamedParam(result.node.args[1], "int", "y")
    /\ result.node.child.kind = "Function"
    /\ Len(result.node.child.args) = 1
    /\ NamedParam(result.node.child.args[1], "int", "x")
    /\ result.node.child.child.kind = "Identifier"
    /\ result.node.child.child.identifier = "f"

C2_Witness ==
  /\ tokens = ExFuncFunc /\ result.op = "declarator" /\ result.pos = 1
  /\ result.st = "ok"
  /\ Cardinality(result.calls) = 2

\* C3: after parse_declaration has parsed `typedef int myint;` the registry
\* reports myint as a typedef name
C3_TypedefRegistered ==
  (tokens = ExTypedef /\ result.op = "declaration" /\ result.pos = 0) =>
    /\ result.st = "ok"
    /\ symbols["myint"] = "typedef"

\* C4 (original): parse_abstract_declarator returns a (declarator, position)
\* pair only when the leaf name is absent
C4_NamedLeafFails ==
  (result.op = "abstract_declarator" /\ result.st = "ok") =>
    Leaf(result.node).identifier = "None"

\* C4 (amended): parse_abstract_declarator returns the (declarator, position)
\* pair also when the leaf carries a name; it records the abstract-declarator
\* error in the error sink exactly when the leaf carries a name
C4_NamedLeafLogged ==
  (result.op = "abstract_declarator" /\ result.st = "ok") =>
    /\ (Leaf(result.node).identifier # "None") <=> (AbstractMsg \in result.logged)
    /\ result.logged \subseteq errors
    /\ result.node.r = <<PyIdx(result.pos), PyIdx(result.idx - 1)>>

C4_Witness ==
  /\ result.op = "abstract_declarator" /\ result.st = "ok"
  /\ Leaf(result.node).identifier # "None"
  /\ result.node.kind # "Identifier"
  /\ AbstractMsg \in errors

\* C5: end_of_declarator(pos) returns p with pos <= p <= buffer length whose
\* token is not `*`, identifier, `(` or `[`; it returns pos unchanged when the
\* token at pos is of another kind; it fails only on an unmatched bracket
C5_EndOfDeclarator ==
  result.op = "find_decl_end" =>
    /\ result.st \in {"ok", "error"}
    /\ result.st = "ok" =>
         /\ result.pos <= result.idx /\ result.idx <= NTok
         /\ result.idx < NTok => Kind(result.idx) \notin Continuing
    /\ (result.pos = NTok \/ Kind(result.pos) \notin Continuing) =>
         (result.st = "ok" /\ result.idx = result.pos)
    /\ result.st = "error" =>
         /\ result.pos <= result.at /\ result.at < NTok
         /\ \/ Kind(result.at) = "(" /\ Unmatched(result.at, "(", ")")
            \/ Kind(result.at) = "[" /\ Unmatched(result.at, "[", "]")

C5_Witness ==
  /\ result.op = "find_decl_end" /\ result.st = "ok"
  /\ Kind(result.pos) = "identifier"
  /\ Kind(result.pos + 1) = "["
  /\ Kind(result.idx - 1) = "]"
  /\ result.idx >= result.pos + 6

\* C6: the range attached to the node returned for the span [start, end)
\* begins at token start and ends at token end-1
C6_RangeRoundTrip ==
  (IsBuild /\ result.st = "ok") =>
    result.node.r = <<result.pos, result.idx - 1>>

\* C7: a specifier list returned by parse_decl_specifiers holds at most one
\* typedef-name token and never a typedef-name token with a simple-type keyword
C7_OneTypeSpecClass ==
  (result.op \in {"decl_specifiers", "spec_qual_list"} /\ result.st = "ok") =>
    LET specs == result.node.specs
        tdefs == {i \in DOMAIN specs : specs[i] \in Names}
        simple == {i \in DOMAIN specs : specs[i] \in type_specs}
    IN /\ Cardinality(tdefs) <= 1
       /\ tdefs = {} \/ simple = {}
       /\ \A i \in DOMAIN specs : specs[i] = Tok(result.pos + i - 1)

C7_Witness ==
  /\ result.op = "decl_specifiers" /\ result.st = "ok"
  /\ \E i \in DOMAIN result.node.specs : result.node.specs[i] \in Names
  /\ \/ token_in(result.idx, type_specs)
     \/ token_is(result.idx, "identifier") /\ is_typedef(symbols, Tok(result.idx))

\* C8: in specifier-qualifier-only mode a storage-class token is skipped with
\* the error "storage specifier not permitted here" recorded; it is never
\* appended and it never ends the loop
C8_StorageSkipped ==
  result.op = "spec_qual_list" =>
    /\ Tok(result.idx) \notin StorageKeywords
    /\ (\E i \in result.pos .. result.idx - 1 : Tok(i) \in StorageKeywords) =>
         StorageMsg \in result.logged
    /\ result.st = "ok" =>
         \A i \in DOMAIN result.node.specs : result.node.specs[i] \notin StorageKeywords

\* C9: an abandoned function-declarator attempt leaves the typedef registry
\* as it was before the attempt
C9_AttemptIsolated ==
  IsBuild => \A a \in result.aband : a[1] = a[2]

\* C10: every recursive builder call made for a span [start, end) is on a
\* span [s, e) with start <= s <= e <= end and e - s < end - start
C10_SpansShrink ==
  (IsBuild \/ result.op = "declaration") =>
    \A c \in result.calls :
      /\ c[1] <= c[3] /\ c[3] <= c[4] /\ c[4] <= c[2]
      /\ c[4] - c[3] < c[2] - c[1]

C10_Witness ==
  /\ result.op = "declarator" /\ result.st = "ok"
  /\ Cardinality(result.calls) >= 4
  /\ result.node.kind = "Function"
  /\ result.node.child.kind = "Array"

====
